---- MODULE Spec2Model ----
(***************************************************************************)
(* Model of the App component of ui/src/App.js: the view state held in the *)
(* useState hooks, the two HTTP exchanges (translation and tree), the      *)
(* sentence splitter and the text export.                                  *)
(*                                                                         *)
(* Strings that the client takes apart (inputText, sentences,              *)
(* selectedSentence) are sequences of one-character strings, so that the   *)
(* regular expression of splitIntoSentences is modelled character by       *)
(* character.  A nullable value is <<>> (null) or <<v>>.                   *)
(***************************************************************************)
EXTENDS Integers, Sequences, FiniteSets, TLC

\* ------------------------------------------------------------------ bounds
\* Number of HTTP requests (translation and tree together) one run issues.
MaxRequests == 3
\* Longest argument of splitIntoSentences in the SplitSpec specification.
MaxLen == 4

VARIABLES
    inputText,          \* useState("")     : the textarea's text
    results,            \* useState(null)   : NULL or <<response.data>>
    syntaxTree,         \* useState(null)   : NULL or <<object URL>>
    selectedSentence,   \* useState("")     : the sentence of the checked radio
    sentences,          \* useState([])     : the pieces of the submitted text
    loading,            \* useState(false)
    treeLoading,        \* useState(false)
    translationReqs,    \* POST /api/v0/translation requests awaiting an outcome
    treeReqs,           \* POST /api/v0/tree requests awaiting an outcome
    nextId,             \* number of requests issued so far
    downloaded,         \* NULL or <<the last file handed to the browser>>
    last,               \* history: the handler or continuation that ran last
    lastSubmit,         \* history: id of the latest handleSubmit request (0: none)
    resultsOf,          \* history: id of the request whose response set results
    sentencesOf,        \* history: id of the request whose response set sentences
    treeOf,             \* history: the tree request whose response set syntaxTree
    splitArg,           \* SplitSpec: the argument splitIntoSentences was given
    splitRet            \* SplitSpec: what it returned

view == <<inputText, results, syntaxTree, selectedSentence, sentences,
          loading, treeLoading>>
network == <<translationReqs, treeReqs, nextId>>
history == <<lastSubmit, resultsOf, sentencesOf, treeOf>>
splitVars == <<splitArg, splitRet>>
vars == <<view, network, downloaded, last, history, splitVars>>

NULL == <<>>
NoReq == [id |-> 0, text |-> <<>>]

\* ------------------------------------------------------------ input domains
\* Texts the user types into the textarea (which starts empty).
TextA == <<"a", ".", "b", "?">>
TextB == <<"c", "!">>
Texts == {TextA, TextB}

WordsA == << [word |-> "a", freq |-> 2, gram_info |-> "NOUN"],
             [word |-> "b", freq |-> 1, gram_info |-> "VERB"] >>
WordsB == << [word |-> "x", freq |-> 3, gram_info |-> "ADJ"] >>

\* Bodies the translation service answers with (it is opaque to the client;
\* RespB's counts differ from the lengths of its word lists, which the
\* client does not check).
RespA == [ original_text |-> "a.b?",
           original_text_analysis |-> [words_count |-> 2, words_info |-> WordsA],
           translated_text |-> "x",
           translated_text_analysis |-> [words_count |-> 1, words_info |-> WordsB] ]
RespB == [ original_text |-> "c!",
           original_text_analysis |-> [words_count |-> 5, words_info |-> WordsB],
           translated_text |-> "y z",
           translated_text_analysis |-> [words_count |-> 7, words_info |-> WordsA] ]
Responses == {RespA, RespB}

\* Bodies the tree service answers with.
TreeBytes == {"png1", "png2"}

\* --------------------------------------------------------- splitIntoSentences
Delims == {".", "!", "?"}

\* Index of the last element of the longest run, starting at i, of characters
\* that are in S (in = TRUE) or not in S (in = FALSE); i - 1 for an empty run.
RECURSIVE RunEnd(_, _, _, _)
RunEnd(text, i, S, in) ==
    IF i <= Len(text) /\ ((text[i] \in S) = in)
    THEN RunEnd(text, i + 1, S, in)
    ELSE i - 1

\* String.prototype.match with the global regular expression
\* /[^.!?]+[.!?]*/g, scanning from index i: a match cannot start at a
\* delimiter (the engine moves on by one character), otherwise it takes the
\* longest run of non-delimiters and then the longest run of delimiters.
RECURSIVE MatchAll(_, _)
MatchAll(text, i) ==
    IF i > Len(text) THEN <<>>
    ELSE IF text[i] \in Delims THEN MatchAll(text, i + 1)
    ELSE LET j == RunEnd(text, i, Delims, FALSE)
             k == RunEnd(text, j + 1, Delims, TRUE)
         IN  <<SubSeq(text, i, k)>> \o MatchAll(text, k + 1)

\* The regular expression without its delimiter part, /[^.!?]+/g.
splitIntoSentences_NoDelims(text) ==
    LET RECURSIVE M(_)
        M(i) == IF i > Len(text) THEN <<>>
                ELSE IF text[i] \in Delims THEN M(i + 1)
                ELSE LET j == RunEnd(text, i, Delims, FALSE)
                     IN  <<SubSeq(text, i, j)>> \o M(j + 1)
    IN  M(1)

\* text.match(...) || [] : a null match (no piece at all) is the empty list.
splitIntoSentences(text) == MatchAll(text, 1)

\* ----------------------------------------------------------- browser objects
Blob(parts, type) == [parts |-> parts, type |-> type]
createObjectURL(blob) == [scheme |-> "blob", object |-> blob]

Range(s) == {s[i] : i \in 1..Len(s)}

Event(op, req, data, bytes) == [op |-> op, req |-> req, data |-> data, bytes |-> bytes]

\* ------------------------------------------------------- handleDownloadResults
\* One "fileContent +=" of a line per WordInfo, in the order of the list.
WordLine(info) ==
    <<"  - Word: ", info.word, ", Frequency: ", ToString(info.freq),
      ", Grammatical Info: ", info.gram_info, "\n">>

WordLines(wordsInfo) == [i \in 1..Len(wordsInfo) |-> WordLine(wordsInfo[i])]

\* The translated section written from the original analysis.
fileContent_SameAnalysis(r) ==
    << <<"Translation Results\n\n">>,
       <<"\nOriginal Text:\n">>,
       <<r.original_text, "\n\n">>,
       <<"Original Text Analysis:\n">>,
       <<"Words Count: ", ToString(r.original_text_analysis.words_count), "\n">>,
       <<"Words Info:\n">> >>
    \o WordLines(r.original_text_analysis.words_info)
    \o << <<"\nTranslated Text:\n">>,
          <<r.translated_text, "\n\n">>,
          <<"Translated Text Analysis:\n">>,
          <<"Words Count: ", ToString(r.original_text_analysis.words_count), "\n">>,
          <<"Words Info:\n">> >>
    \o WordLines(r.original_text_analysis.words_info)

\* The string built by the "fileContent +=" statements: one element per
\* statement, each the parts of its literal or template literal (numbers
\* formatted by the template's string conversion).
fileContent(r) ==
    << <<"Translation Results\n\n">>,
       <<"\nOriginal Text:\n">>,
       <<r.original_text, "\n\n">>,
       <<"Original Text Analysis:\n">>,
       <<"Words Count: ", ToString(r.original_text_analysis.words_count), "\n">>,
       <<"Words Info:\n">> >>
    \o WordLines(r.original_text_analysis.words_info)
    \o << <<"\nTranslated Text:\n">>,
          <<r.translated_text, "\n\n">>,
          <<"Translated Text Analysis:\n">>,
          <<"Words Count: ", ToString(r.translated_text_analysis.words_count), "\n">>,
          <<"Words Info:\n">> >>
    \o WordLines(r.translated_text_analysis.words_info)

\* ---------------------------------------------------------------------- Init
Init ==
    /\ inputText = <<>>
    /\ results = NULL
    /\ syntaxTree = NULL
    /\ selectedSentence = <<>>
    /\ sentences = <<>>
    /\ loading = FALSE
    /\ treeLoading = FALSE
    /\ translationReqs = {}
    /\ treeReqs = {}
    /\ nextId = 0
    /\ downloaded = NULL
    /\ last = Event("init", NoReq, NULL, NULL)
    /\ lastSubmit = 0
    /\ resultsOf = 0
    /\ sentencesOf = 0
    /\ treeOf = NoReq
    /\ splitArg = <<>>
    /\ splitRet = <<>>

\* ------------------------------------------------------------------- actions
\* onChange of the textarea.
SetInputText(t) ==
    /\ t # inputText
    /\ inputText' = t
    /\ last' = Event("setInputText", NoReq, NULL, NULL)
    /\ UNCHANGED <<results, syntaxTree, selectedSentence, sentences, loading,
                   treeLoading, network, downloaded, history, splitVars>>

\* handleSubmit posting its request twice.
handleSubmit_Twice ==
    /\ nextId + 1 < MaxRequests
    /\ LET r == [id |-> nextId + 1, text |-> inputText]
           q == [id |-> nextId + 2, text |-> inputText]
       IN  /\ loading' = TRUE
           /\ results' = NULL
           /\ syntaxTree' = NULL
           /\ translationReqs' = translationReqs \cup {r, q}
           /\ nextId' = nextId + 2
           /\ lastSubmit' = q.id
           /\ resultsOf' = 0
           /\ treeOf' = NoReq
           /\ last' = Event("handleSubmit", q, NULL, NULL)
    /\ UNCHANGED <<inputText, selectedSentence, sentences, treeLoading, treeReqs,
                   downloaded, sentencesOf, splitVars>>

\* handleSubmit up to its await: the submit button is always enabled.
handleSubmit ==
    /\ nextId < MaxRequests
    /\ LET r == [id |-> nextId + 1, text |-> inputText]
       IN  /\ loading' = TRUE
           /\ results' = NULL
           /\ syntaxTree' = NULL
           /\ translationReqs' = translationReqs \cup {r}
           /\ nextId' = nextId + 1
           /\ lastSubmit' = r.id
           /\ resultsOf' = 0
           /\ treeOf' = NoReq
           /\ last' = Event("handleSubmit", r, NULL, NULL)
    /\ UNCHANGED <<inputText, selectedSentence, sentences, treeLoading, treeReqs,
                   downloaded, sentencesOf, splitVars>>

\* The continuation splitting the textarea's text of the moment the
\* response arrives instead of the text its handleSubmit call captured.
TranslationSuccess_CurrentText(r, d) ==
    /\ r \in translationReqs
    /\ results' = <<d>>
    /\ sentences' = splitIntoSentences(inputText)
    /\ loading' = FALSE
    /\ translationReqs' = translationReqs \ {r}
    /\ resultsOf' = r.id
    /\ sentencesOf' = r.id
    /\ last' = Event("translationOk", r, <<d>>, NULL)
    /\ UNCHANGED <<inputText, syntaxTree, selectedSentence, treeLoading, treeReqs,
                   nextId, downloaded, lastSubmit, treeOf, splitVars>>

\* handleSubmit after its await, the request resolved with body d: the try
\* block's two setters and the finally block.  inputText there is the value
\* the handler's closure captured, which is the text that was sent.
TranslationSuccess(r, d) ==
    /\ r \in translationReqs
    /\ results' = <<d>>
    /\ sentences' = splitIntoSentences(r.text)
    /\ loading' = FALSE
    /\ translationReqs' = translationReqs \ {r}
    /\ resultsOf' = r.id
    /\ sentencesOf' = r.id
    /\ last' = Event("translationOk", r, <<d>>, NULL)
    /\ UNCHANGED <<inputText, syntaxTree, selectedSentence, treeLoading, treeReqs,
                   nextId, downloaded, lastSubmit, treeOf, splitVars>>

\* handleSubmit after its await, the request rejected (network error or
\* non-2xx status): the catch block logs, the finally block runs.
TranslationFailure(r) ==
    /\ r \in translationReqs
    /\ loading' = FALSE
    /\ translationReqs' = translationReqs \ {r}
    /\ last' = Event("translationFail", r, NULL, NULL)
    /\ UNCHANGED <<inputText, results, syntaxTree, selectedSentence, sentences,
                   treeLoading, treeReqs, nextId, downloaded, history, splitVars>>

\* onChange of a sentence's radio button; the list is rendered only inside
\* the results panel.
SelectSentence(s) ==
    /\ results # NULL
    /\ s \in Range(sentences)
    /\ selectedSentence' = s
    /\ last' = Event("selectSentence", NoReq, NULL, NULL)
    /\ UNCHANGED <<inputText, results, syntaxTree, sentences, loading, treeLoading,
                   network, downloaded, history, splitVars>>

\* The button's disabled attribute without its treeLoading part.
GenerateDisabled_NoLoading == selectedSentence = <<>>

\* disabled={!selectedSentence || treeLoading}
GenerateDisabled == selectedSentence = <<>> \/ treeLoading

\* handleGenerateTree up to its await.
handleGenerateTree ==
    IF selectedSentence = <<>>
    THEN UNCHANGED <<view, network, history>>
    ELSE /\ nextId < MaxRequests
         /\ LET r == [id |-> nextId + 1, text |-> selectedSentence]
            IN  /\ treeLoading' = TRUE
                /\ syntaxTree' = NULL
                /\ treeReqs' = treeReqs \cup {r}
                /\ nextId' = nextId + 1
                /\ treeOf' = NoReq
         /\ UNCHANGED <<inputText, results, selectedSentence, sentences, loading,
                        translationReqs, lastSubmit, resultsOf, sentencesOf>>

\* A click on the Generate Syntax Tree button: a disabled button runs no
\* handler.
ClickGenerateTree ==
    /\ IF GenerateDisabled
       THEN UNCHANGED <<view, network, history>>
       ELSE handleGenerateTree
    /\ last' = Event("generateTree", NoReq, NULL, NULL)
    /\ UNCHANGED <<downloaded, splitVars>>

\* The continuation leaving the treeLoading flag set.
TreeSuccess_KeepLoading(r, b) ==
    /\ r \in treeReqs
    /\ syntaxTree' = <<createObjectURL(Blob(<<b>>, "image/png"))>>
    /\ treeReqs' = treeReqs \ {r}
    /\ treeOf' = r
    /\ last' = Event("treeOk", r, NULL, <<b>>)
    /\ UNCHANGED <<inputText, results, selectedSentence, sentences, loading,
                   treeLoading, translationReqs, nextId, downloaded, lastSubmit,
                   resultsOf, sentencesOf, splitVars>>

\* handleGenerateTree after its await, the request resolved with bytes b.
TreeSuccess(r, b) ==
    /\ r \in treeReqs
    /\ syntaxTree' = <<createObjectURL(Blob(<<b>>, "image/png"))>>
    /\ treeLoading' = FALSE
    /\ treeReqs' = treeReqs \ {r}
    /\ treeOf' = r
    /\ last' = Event("treeOk", r, NULL, <<b>>)
    /\ UNCHANGED <<inputText, results, selectedSentence, sentences, loading,
                   translationReqs, nextId, downloaded, lastSubmit, resultsOf,
                   sentencesOf, splitVars>>

\* handleGenerateTree after its await, the request rejected.
TreeFailure(r) ==
    /\ r \in treeReqs
    /\ treeLoading' = FALSE
    /\ treeReqs' = treeReqs \ {r}
    /\ last' = Event("treeFail", r, NULL, NULL)
    /\ UNCHANGED <<inputText, results, syntaxTree, selectedSentence, sentences,
                   loading, translationReqs, nextId, downloaded, history, splitVars>>

\* handleDownloadResults (its button is rendered only inside the results
\* panel, and the handler itself returns at once when results is null).
handleDownloadResults ==
    /\ IF results = NULL
       THEN UNCHANGED downloaded
       ELSE downloaded' =
              << [ download |-> "translation_results.txt",
                   href |-> createObjectURL(
                              Blob(<<fileContent(results[1])>>,
                                   "text/plain;charset=utf-8")) ] >>
    /\ last' = Event("download", NoReq, NULL, NULL)
    /\ UNCHANGED <<view, network, history, splitVars>>

Next ==
    \/ \E t \in Texts : SetInputText(t)
    \/ handleSubmit
    \/ \E r \in translationReqs, d \in Responses : TranslationSuccess(r, d)
    \/ \E r \in translationReqs : TranslationFailure(r)
    \/ \E s \in Range(sentences) : SelectSentence(s)
    \/ ClickGenerateTree
    \/ \E r \in treeReqs, b \in TreeBytes : TreeSuccess(r, b)
    \/ \E r \in treeReqs : TreeFailure(r)
    \/ handleDownloadResults

Spec == Init /\ [][Next]_vars

\* ------------------------------------------------ splitIntoSentences alone
\* Characters of the bounded arguments: two non-delimiters and two of the
\* three delimiters (the third occurs in Example).
Alphabet == {"a", " ", ".", "?"}

Example ==
    <<"H", "e", "l", "l", "o", " ", "w", "o", "r", "l", "d", ".", " ", "H", "o",
      "w", " ", "a", "r", "e", " ", "y", "o", "u", "?", " ", "F", "i", "n", "e",
      "!">>

SplitInputs ==
    UNION {[1..n -> Alphabet] : n \in 0..MaxLen} \cup {Example}

\* One call of splitIntoSentences.
SplitCall(t) ==
    /\ splitArg' = t
    /\ splitRet' = splitIntoSentences(t)
    /\ UNCHANGED <<view, network, downloaded, last, history>>

SplitNext == \E t \in SplitInputs : SplitCall(t)

SplitSpec == Init /\ [][SplitNext]_vars

\* ==================================================================== claims
Flatten(pieces) ==
    LET RECURSIVE F(_)
        F(i) == IF i > Len(pieces) THEN <<>> ELSE pieces[i] \o F(i + 1)
    IN  F(1)

InFlight == translationReqs \cup treeReqs

\* C1: in every state reached right after the failure of a translation
\* request has been handled (catch and finally), results is null and loading
\* is false, whatever other submissions are in flight or have completed.
C1_FailedRequestLeavesResultsUnset ==
    last.op = "translationFail" => (results = NULL /\ loading = FALSE)

\* C2: whenever results is non-null it is the response to the most recently
\* issued handleSubmit request, never the response to an earlier one.
C2_ResultsOfLatestSubmission ==
    results # NULL => resultsOf = lastSubmit

\* C3: every step adds at most one request to the requests in flight, and
\* handleSubmit can be started while loading is true (so that two
\* translation requests can be in flight together).
C3_AtMostOneRequestPerAction ==
    [][ /\ Cardinality(InFlight') <= Cardinality(InFlight) + 1
        /\ nextId' <= nextId + 1
        /\ (loading /\ nextId < MaxRequests => ENABLED handleSubmit) ]_vars

C3_TwoTranslationsInFlight ==
    loading /\ Cardinality(translationReqs) >= 2

\* Each piece is one or more non-delimiters followed by delimiters only, and
\* every piece but the last ends with a delimiter (a piece takes the whole
\* run of delimiters after it, the next one starts at a non-delimiter).
PiecesWellFormed(pieces) ==
    /\ \A p \in 1..Len(pieces) :
         LET piece == pieces[p]
         IN  /\ Len(piece) >= 1
             /\ piece[1] \notin Delims
             /\ \A i \in 1..(Len(piece) - 1) :
                  piece[i] \in Delims => piece[i + 1] \in Delims
    /\ \A p \in 1..(Len(pieces) - 1) : pieces[p][Len(pieces[p])] \in Delims

\* The text without the delimiters it starts with.
AfterLeadingDelims(text) ==
    SubSeq(text, RunEnd(text, 1, Delims, TRUE) + 1, Len(text))

ExamplePieces ==
    << <<"H", "e", "l", "l", "o", " ", "w", "o", "r", "l", "d", ".">>,
       <<" ", "H", "o", "w", " ", "a", "r", "e", " ", "y", "o", "u", "?">>,
       <<" ", "F", "i", "n", "e", "!">> >>

\* C4 (as stated): the pieces of splitIntoSentences are non-empty, each one
\* or more non-delimiters followed by the whole run of delimiters after
\* them, their concatenation is the input, and the example text yields its
\* three sentences.
C4_PiecesConcatenateToInput ==
    /\ PiecesWellFormed(splitRet)
    /\ Flatten(splitRet) = splitArg
    /\ (splitArg = Example => splitRet = ExamplePieces)

\* C4 (amended): as above, except that the concatenation of the pieces is
\* the input without the delimiters it starts with.
C4_PiecesConcatenateToInputAfterLeadingDelims ==
    /\ PiecesWellFormed(splitRet)
    /\ Flatten(splitRet) = AfterLeadingDelims(splitArg)
    /\ (splitArg = Example => splitRet = ExamplePieces)

C4_LeadingDelimiterSplit ==
    /\ Len(splitArg) > 0
    /\ splitArg[1] \in Delims
    /\ Len(splitRet) >= 2

\* C5: a successful translation response sets results to exactly its data
\* and sentences to the pieces of the text sent in that same request, so
\* that non-null results and sentences stem from one submission; a
\* submission clears results and syntaxTree when it is issued.
C5_ResultsReplacedWholesale ==
    /\ last.op = "translationOk" =>
         /\ results = last.data
         /\ sentences = splitIntoSentences(last.req.text)
    /\ results # NULL => resultsOf = sentencesOf
    /\ last.op = "handleSubmit" => (results = NULL /\ syntaxTree = NULL)

C5_ResponseAfterTextChanged ==
    /\ last.op = "translationOk"
    /\ results # NULL
    /\ last.req.text # inputText
    /\ sentences # <<>>

\* C6: handleGenerateTree with a non-empty selectedSentence sends exactly
\* that sentence; a successful response makes syntaxTree an object URL of
\* the response's bytes and treeLoading false; with an empty
\* selectedSentence no request is sent and nothing changes.
C6_TreeGeneration ==
    [][ /\ (last'.op = "generateTree" /\ ~GenerateDisabled) =>
              /\ treeReqs' \ treeReqs =
                     {[id |-> nextId + 1, text |-> selectedSentence]}
              /\ translationReqs' = translationReqs
        /\ (last'.op = "generateTree" /\ selectedSentence = <<>>) =>
              UNCHANGED <<view, network, downloaded>>
        /\ last'.op = "treeOk" =>
              /\ syntaxTree' =
                     << [ scheme |-> "blob",
                          object |-> [parts |-> last'.bytes, type |-> "image/png"] ] >>
              /\ treeLoading' = FALSE ]_vars

C6_TreeRendered ==
    /\ last.op = "treeOk"
    /\ syntaxTree # NULL
    /\ last.req.text = selectedSentence
    /\ ~treeLoading

\* The file's content read back position by position.
ContentHoldsBothAnalyses(c, r) ==
    LET o  == r.original_text_analysis
        t  == r.translated_text_analysis
        n1 == Len(o.words_info)
        n2 == Len(t.words_info)
        IsLine(chunk, info) ==
            /\ Len(chunk) = 7
            /\ chunk[2] = info.word
            /\ chunk[4] = ToString(info.freq)
            /\ chunk[6] = info.gram_info
    IN  /\ Len(c) = 11 + n1 + n2
        /\ c[3][1] = r.original_text
        /\ c[5][2] = ToString(o.words_count)
        /\ \A i \in 1..n1 : IsLine(c[6 + i], o.words_info[i])
        /\ c[6 + n1 + 2][1] = r.translated_text
        /\ c[6 + n1 + 4][2] = ToString(t.words_count)
        /\ \A i \in 1..n2 : IsLine(c[11 + n1 + i], t.words_info[i])

\* C7: with results non-null the download produces the file
\* translation_results.txt holding the original text, its words count and a
\* line per WordInfo in server order, then the same for the translation; it
\* sends no request and leaves the view state alone; with results null it
\* produces nothing.
C7_DownloadArtifact ==
    [][ last'.op = "download" =>
          /\ UNCHANGED <<view, network>>
          /\ IF results = NULL
             THEN downloaded' = downloaded
             ELSE /\ Len(downloaded') = 1
                  /\ downloaded'[1].download = "translation_results.txt"
                  /\ downloaded'[1].href.scheme = "blob"
                  /\ downloaded'[1].href.object.type = "text/plain;charset=utf-8"
                  /\ ContentHoldsBothAnalyses(
                         downloaded'[1].href.object.parts[1], results[1]) ]_vars

C7_FileDownloaded ==
    /\ last.op = "download"
    /\ results = <<RespB>>
    /\ downloaded # NULL
    /\ downloaded[1].href.object.parts[1] = fileContent(RespB)

\* C8: loading is false whenever no translation request is in flight, and
\* true whenever one is.
C8_LoadingIffTranslationInFlight ==
    /\ translationReqs = {} => loading = FALSE
    /\ translationReqs # {} => loading = TRUE

\* C9: at most one tree request is in flight, and treeLoading is true
\* exactly when one is.
C9_AtMostOneTreeRequest ==
    /\ Cardinality(treeReqs) <= 1
    /\ treeLoading <=> treeReqs # {}

C9_ClickWhileTreeLoading ==
    /\ last.op = "generateTree"
    /\ treeLoading
    /\ Cardinality(treeReqs) = 1

\* C10: a displayed syntax tree is the response to a tree request for one of
\* the current sentences, issued after the latest submission.
C10_TreeOfCurrentSubmission ==
    syntaxTree # NULL =>
        /\ treeOf.text \in Range(sentences)
        /\ treeOf.id > lastSubmit
====
